---- MODULE Spec2Model ----
(***************************************************************************)
(* Model of src/main.py: the VCDatabase session object (Airtable fetch,    *)
(* context builder, web-search fallback chain, ask_claude orchestrator).   *)
(*                                                                         *)
(* Text is a sequence of one-character strings, so slicing, joining,       *)
(* lower-casing and substring tests are computed as Python computes them.  *)
(* A JSON value is a tagged record: Str(text), Num(n) or PyNone.           *)
(***************************************************************************)
EXTENDS Integers, Sequences, FiniteSets, TLC

VARIABLES
    claude_api_key,    \* self.claude_api_key: <<>> for None, else the key text
    database_context,  \* self.database_context: text, <<>> is ""
    last_sync,         \* self.last_sync: <<>> for None, else <<time of the sync>>
    clock,             \* what datetime.now() returns next
    op,                \* the operation that ran last
    arg,               \* the inputs of that operation (what the outside world answered)
    ret,               \* what it returned, as a tagged value (PyNone before it returns)
    calls,             \* the calls it made, in order
    synced,            \* the records the last successful sync folded into the context
    environ            \* os.environ: the two search keys, <<>> when unset

vars ==
    <<claude_api_key, database_context, last_sync, clock, op, arg, ret, calls, synced,
      environ>>

----------------------------------------------------------------------------
(* Bounds *)

MaxClock == 3          \* the clock stops here: datetime.now() is read MaxClock - 1 times
MaxRecords == 2        \* longest record sequence handed to create_context

(* Program constants *)

NotesLimit == 500
SummaryLimit == 500
MaxResults == 3
ErrorBodyLimit == 200
MaxTokens == 4000

----------------------------------------------------------------------------
(* Text *)

Rep(c, n) == [i \in 1..n |-> c]

Min(a, b) == IF a < b THEN a ELSE b

\* s[:n]
Slice(s, n) == SubSeq(s, 1, Min(n, Len(s)))

StartsWith(s, p) == Len(p) <= Len(s) /\ SubSeq(s, 1, Len(p)) = p

\* p in s
Contains(s, p) ==
    \E i \in 0..(Len(s) - Len(p)) : SubSeq(s, i + 1, i + Len(p)) = p

RECURSIVE Join(_, _)
\* sep.join(parts)
Join(parts, sep) ==
    IF parts = <<>> THEN <<>>
    ELSE IF Len(parts) = 1 THEN parts[1]
    ELSE parts[1] \o sep \o Join(Tail(parts), sep)

Digits ==
    <<"0", "1", "2", "3", "4", "5", "6", "7", "8", "9">>

RECURSIVE Decimal(_)
\* str(n) for n >= 0
Decimal(n) ==
    IF n < 10 THEN <<Digits[n + 1]>>
    ELSE Decimal(n \div 10) \o <<Digits[(n % 10) + 1]>>

NL ==
    <<"\n">>

----------------------------------------------------------------------------
(* JSON values and dict access *)

PyNone == [t |-> "none"]
Str(s) == [t |-> "str", v |-> s]
Num(n) == [t |-> "int", v |-> n]
Bool(b) == [t |-> "bool", v |-> b]

\* bool(x)
Truthy(x) ==
    CASE x.t = "none" -> FALSE
      [] x.t = "str" -> x.v # <<>>
      [] x.t = "int" -> x.v # 0

\* d.get(k)
Get(d, k) == IF k \in DOMAIN d THEN d[k] ELSE PyNone

RECURSIVE FirstOf(_, _, _)
\* d.get(a1) or d.get(a2) or ... or default
FirstOf(d, aliases, default) ==
    IF aliases = <<>> THEN default
    ELSE IF Truthy(Get(d, Head(aliases))) THEN Get(d, Head(aliases))
    ELSE FirstOf(d, Tail(aliases), default)

\* f"{x}"
Format(x) ==
    CASE x.t = "none" -> <<"N", "o", "n", "e">>
      [] x.t = "str" -> x.v
      [] x.t = "int" -> Decimal(x.v)

----------------------------------------------------------------------------
(* create_context *)

HEADER ==
    <<"=", "=", "=", " ", "V", "C", " ", "D", "A", "T", "A", "B", "A", "S", "E", " ", "=", "=",
    "=", "\n">>
CompanyLabel ==
    <<"\n", "C", "o", "m", "p", "a", "n", "y", ":", " ">>
StatusLabel ==
    <<"S", "t", "a", "t", "u", "s", ":", " ">>
DateLabel ==
    <<"D", "a", "t", "e", ":", " ">>
NotesLabel ==
    <<"N", "o", "t", "e", "s", ":", " ">>
SummaryLabel ==
    <<"D", "e", "c", "k", " ", "S", "u", "m", "m", "a", "r", "y", ":", " ">>
Unknown ==
    <<"U", "n", "k", "n", "o", "w", "n">>

CompanyAliases == <<"company_name", "Company Name", "Company", "name">>
StatusAliases == <<"status", "Status", "Current status", "Current Status">>
NotesAliases == <<"notes", "Notes", "call notes", "Call Notes", "Call notes">>
DateAliases == <<"date", "Date", "Last Contact", "last_contact">>
SummaryAliases ==
    <<"pitch_deck_summary", "Pitch Deck Summary", "summary", "Summary", "deck_summary",
      "Deck Summary">>

\* record.get("fields", {})
FieldsOf(record) ==
    IF "fields" \in DOMAIN record THEN record["fields"] ELSE <<>>

Company(record) == FirstOf(FieldsOf(record), CompanyAliases, Str(Unknown))
Status(record) == FirstOf(FieldsOf(record), StatusAliases, Str(<<>>))
Notes(record) == FirstOf(FieldsOf(record), NotesAliases, Str(<<>>))
Date(record) == FirstOf(FieldsOf(record), DateAliases, Str(<<>>))
Summary(record) == FirstOf(FieldsOf(record), SummaryAliases, Str(<<>>))

\* x[:n] raises TypeError unless x is text (the only sliceable value modelled)
SliceRaises(x) == Truthy(x) /\ x.t # "str"

\* a notes line that is not cut
NotesLineUncut(notes) == NotesLabel \o notes.v

NotesLine(notes) == NotesLabel \o Slice(notes.v, NotesLimit)

SummaryLine(summary) == SummaryLabel \o Slice(summary.v, SummaryLimit)

\* the entries one pass of the loop appends to the list `context`
RecordLines(record) ==
    <<CompanyLabel \o Format(Company(record))>>
    \o (IF Truthy(Status(record)) THEN <<StatusLabel \o Format(Status(record))>> ELSE <<>>)
    \o (IF Truthy(Date(record)) THEN <<DateLabel \o Format(Date(record))>> ELSE <<>>)
    \o (IF Truthy(Notes(record)) THEN <<NotesLine(Notes(record))>> ELSE <<>>)
    \o (IF Truthy(Summary(record)) THEN <<SummaryLine(Summary(record))>> ELSE <<>>)

RECURSIVE ContextLines(_)
\* the list `context` after the loop over the records, less the header
ContextLines(records) ==
    IF records = <<>> THEN <<>>
    ELSE RecordLines(Head(records)) \o ContextLines(Tail(records))

\* create_context(records): [ok |-> TRUE, v |-> the text] or the exception raised
create_context(records) ==
    IF \E i \in 1..Len(records) :
           SliceRaises(Notes(records[i])) \/ SliceRaises(Summary(records[i]))
    THEN [ok |-> FALSE, exc |-> "TypeError"]
    ELSE [ok |-> TRUE, v |-> Join(<<HEADER>> \o ContextLines(records), NL)]

----------------------------------------------------------------------------
(* fetch_table, find_table *)

\* What requests.get answers for one table: it raises, or it is a response with
\* a status code and a body that is not JSON ([valid |-> FALSE]) or is the JSON
\* object `data`.
Raises == [kind |-> "exception"]
Response(status, body) == [kind |-> "response", status_code |-> status, body |-> body]
NotJson == [valid |-> FALSE]
Json(data) == [valid |-> TRUE, data |-> data]

\* fetch_table, given what requests.get answers
fetch_table(answer) ==
    IF answer.kind = "exception" THEN <<>>
    ELSE IF answer.status_code = 200
         THEN IF ~answer.body.valid THEN <<>>
              ELSE IF "records" \in DOMAIN answer.body.data
                   THEN answer.body.data["records"]
                   ELSE <<>>
         ELSE <<>>

possible_names ==
    <<"List of Cos", "companies_full_history_safe", "Companies", "Imported table",
      "Portfolio Companies">>

RECURSIVE FindFromLast(_, _)
\* a find_table loop that keeps probing after a hit and returns the last one
FindFromLast(store, names) ==
    IF names = <<>> THEN [data |-> <<>>, fetched |-> <<>>]
    ELSE LET data == fetch_table(store[Head(names)])
             rest == FindFromLast(store, Tail(names))
         IN  [data |-> IF rest.data # <<>> THEN rest.data ELSE data,
              fetched |-> <<Head(names)>> \o rest.fetched]

RECURSIVE FindFrom(_, _)
\* the loop of find_table over the names still to try:
\* [data |-> what it returns, fetched |-> the names it fetched, in order]
FindFrom(store, names) ==
    IF names = <<>> THEN [data |-> <<>>, fetched |-> <<>>]
    ELSE LET data == fetch_table(store[Head(names)])
         IN  IF data # <<>>
             THEN [data |-> data, fetched |-> <<Head(names)>>]
             ELSE LET rest == FindFrom(store, Tail(names))
                  IN  [data |-> rest.data, fetched |-> <<Head(names)>> \o rest.fetched]

find_table(store) == FindFrom(store, possible_names)

----------------------------------------------------------------------------
(* sync_database *)

\* a sync that adds the new text to the old context
SyncContextAppending(old, built) == old \o built

\* the value sync_database stores in database_context on success
SyncContext(old, built) == built

\* a sync_database that resets the session when it finds no records
sync_database_resetting(store, ctx, ls, now) ==
    LET found == find_table(store)
        built == create_context(found.data)
    IN  IF found.data = <<>> \/ ~built.ok
        THEN [ret |-> FALSE, database_context |-> <<>>, last_sync |-> <<>>,
              fetched |-> found.fetched, records |-> found.data, ticks |-> 0]
        ELSE [ret |-> TRUE, database_context |-> SyncContext(ctx, built.v),
              last_sync |-> <<now>>,
              fetched |-> found.fetched, records |-> found.data, ticks |-> 1]

\* a sync_database that stamps the sync time even when it found no records
sync_database_stamping(store, ctx, ls, now) ==
    LET found == find_table(store)
        built == create_context(found.data)
    IN  IF found.data = <<>> \/ ~built.ok
        THEN [ret |-> FALSE, database_context |-> ctx, last_sync |-> <<now>>,
              fetched |-> found.fetched, records |-> found.data, ticks |-> 1]
        ELSE [ret |-> TRUE, database_context |-> SyncContext(ctx, built.v),
              last_sync |-> <<now>>,
              fetched |-> found.fetched, records |-> found.data, ticks |-> 1]

\* sync_database run on the session (ctx, ls) when the store answers `store` and
\* datetime.now() answers `now`: what it returns and what it leaves behind
sync_database(store, ctx, ls, now) ==
    LET found == find_table(store)
        built == create_context(found.data)
    IN  IF found.data = <<>>
        THEN [ret |-> FALSE, database_context |-> ctx, last_sync |-> ls,
              fetched |-> found.fetched, records |-> found.data, ticks |-> 0]
        ELSE IF ~built.ok
        THEN [ret |-> FALSE, database_context |-> ctx, last_sync |-> ls,
              fetched |-> found.fetched, records |-> found.data, ticks |-> 0]
        ELSE [ret |-> TRUE, database_context |-> SyncContext(ctx, built.v),
              last_sync |-> <<now>>,
              fetched |-> found.fetched, records |-> found.data, ticks |-> 1]

----------------------------------------------------------------------------
(* The search providers *)

\* "U+2022" stands for the one character U+2022 (bullet), which is not ASCII
Bullet ==
    <<"U+2022", " ">>
SnippetIndent ==
    <<"\n", " ", " ">>
SourceLabel ==
    <<"\n", " ", " ", "S", "o", "u", "r", "c", "e", ":", " ">>
ResultSep ==
    <<"\n", "\n">>
NoTitle ==
    <<"N", "o", " ", "t", "i", "t", "l", "e">>
NoDescription ==
    <<"N", "o", " ", "d", "e", "s", "c", "r", "i", "p", "t", "i", "o", "n">>
NoResultsText ==
    <<"N", "o", " ", "s", "e", "a", "r", "c", "h", " ", "r", "e", "s", "u", "l", "t", "s", " ",
    "f", "o", "u", "n", "d", ".">>

RECURSIVE Strip(_)
\* s.strip(), the white space being blanks
Strip(s) ==
    IF s = <<>> THEN s
    ELSE IF Head(s) = " " THEN Strip(Tail(s))
    ELSE IF s[Len(s)] = " " THEN Strip(SubSeq(s, 1, Len(s) - 1))
    ELSE s

\* d.get(k, default)
GetOr(d, k, default) == IF k \in DOMAIN d THEN d[k] ELSE default

\* f"(U+2022) {title}\n  {snippet}\n  Source: {link}"
FormatResult(r, snippetKey, linkKey) ==
    Bullet \o Format(GetOr(r, "title", Str(NoTitle)))
    \o SnippetIndent \o Format(GetOr(r, snippetKey, Str(NoDescription)))
    \o SourceLabel \o Format(GetOr(r, linkKey, Str(<<>>)))

\* what a provider returns for the list `results` it built
ResultText(results) ==
    IF results # <<>> THEN Str(Join(results, ResultSep)) ELSE Str(NoResultsText)

\* web_search_duckduckgo: the library is missing ("ImportError"), the search
\* raises ("exception"), or it yields `items`
web_search_duckduckgo(answer) ==
    IF answer.kind = "ImportError" THEN [ret |-> PyNone, calls |-> <<<<"web_search_duckduckgo">>>>]
    ELSE IF answer.kind = "exception"
    THEN [ret |-> PyNone, calls |-> <<<<"web_search_duckduckgo">>, <<"DDGS.text">>>>]
    ELSE [ret |-> ResultText([i \in 1..Len(answer.items) |->
                                 FormatResult(answer.items[i], "body", "link")]),
          calls |-> <<<<"web_search_duckduckgo">>, <<"DDGS.text">>>>]

\* the body of a keyed provider once its key is known to be set: `items` is
\* the list the provider reads out of a JSON body
KeyedSearch(answer, items, snippetKey, linkKey) ==
    IF answer.kind = "exception" THEN PyNone
    ELSE IF answer.status_code = 200
         THEN IF ~answer.body.valid THEN PyNone
              ELSE ResultText([i \in 1..Len(Slice(items, MaxResults)) |->
                                  FormatResult(items[i], snippetKey, linkKey)])
         ELSE PyNone

\* data.get("web", {}).get("results", [])
BraveItems(data) ==
    IF "web" \in DOMAIN data
    THEN IF "results" \in DOMAIN data["web"] THEN data["web"]["results"] ELSE <<>>
    ELSE <<>>

\* data.get("organic_results", [])
SerpItems(data) ==
    IF "organic_results" \in DOMAIN data THEN data["organic_results"] ELSE <<>>

web_search_brave(env, answer) ==
    IF Strip(env["BRAVE_API_KEY"]) = <<>>
    THEN [ret |-> PyNone, calls |-> <<<<"web_search_brave">>>>]
    ELSE [ret |-> KeyedSearch(answer,
                      IF answer.kind = "response" /\ answer.body.valid
                      THEN BraveItems(answer.body.data) ELSE <<>>,
                      "description", "url"),
          calls |-> <<<<"web_search_brave">>, <<"requests.get", "brave">>>>]

web_search_serpapi(env, answer) ==
    IF Strip(env["SERPAPI_KEY"]) = <<>>
    THEN [ret |-> PyNone, calls |-> <<<<"web_search_serpapi">>>>]
    ELSE [ret |-> KeyedSearch(answer,
                      IF answer.kind = "response" /\ answer.body.valid
                      THEN SerpItems(answer.body.data) ELSE <<>>,
                      "snippet", "link"),
          calls |-> <<<<"web_search_serpapi">>, <<"requests.get", "serpapi">>>>]

\* a web_search that reports "no results" text once every provider has failed
web_search_blank(env, answers) ==
    LET d == web_search_duckduckgo(answers.ddg)
        b == web_search_brave(env, answers.brave)
        s == web_search_serpapi(env, answers.serpapi)
    IN  IF Truthy(d.ret) THEN [ret |-> d.ret, calls |-> d.calls]
        ELSE IF Truthy(b.ret) THEN [ret |-> b.ret, calls |-> d.calls \o b.calls]
        ELSE IF Truthy(s.ret) THEN [ret |-> s.ret, calls |-> d.calls \o b.calls \o s.calls]
        ELSE [ret |-> Str(NoResultsText), calls |-> d.calls \o b.calls \o s.calls]

\* web_search: `answers` is what each provider's backend would answer if asked
web_search(env, answers) ==
    LET d == web_search_duckduckgo(answers.ddg)
        b == web_search_brave(env, answers.brave)
        s == web_search_serpapi(env, answers.serpapi)
    IN  IF Truthy(d.ret) THEN [ret |-> d.ret, calls |-> d.calls]
        ELSE IF Truthy(b.ret) THEN [ret |-> b.ret, calls |-> d.calls \o b.calls]
        ELSE IF Truthy(s.ret) THEN [ret |-> s.ret, calls |-> d.calls \o b.calls \o s.calls]
        ELSE [ret |-> PyNone, calls |-> d.calls \o b.calls \o s.calls]

----------------------------------------------------------------------------
(* ask_claude *)

NotConfiguredText ==
    <<"C", "l", "a", "u", "d", "e", " ", "A", "P", "I", " ", "n", "o", "t", " ", "c", "o", "n",
    "f", "i", "g", "u", "r", "e", "d">>
EmptyResponseText ==
    <<"C", "l", "a", "u", "d", "e", " ", "r", "e", "t", "u", "r", "n", "e", "d", " ", "e", "m",
    "p", "t", "y", " ", "r", "e", "s", "p", "o", "n", "s", "e">>
UnknownErrorText ==
    <<"U", "n", "k", "n", "o", "w", "n", " ", "e", "r", "r", "o", "r">>
ApiErrorPrefix ==
    <<"C", "l", "a", "u", "d", "e", " ", "A", "P", "I", " ", "e", "r", "r", "o", "r", " ", "(">>
ApiErrorMid ==
    <<")", ":", " ">>
TimeoutText ==
    <<"R", "e", "q", "u", "e", "s", "t", " ", "t", "i", "m", "e", "d", " ", "o", "u", "t", ".",
    " ", "P", "l", "e", "a", "s", "e", " ", "t", "r", "y", " ", "a", "g", "a", "i", "n", ".">>
NetworkErrorPrefix ==
    <<"N", "e", "t", "w", "o", "r", "k", " ", "e", "r", "r", "o", "r", ":", " ">>
ErrorPrefix ==
    <<"E", "r", "r", "o", "r", ":", " ">>
PromptIntro ==
    <<"Y", "o", "u", " ", "a", "r", "e", " ", "h", "e", "l", "p", "i", "n", "g", " ", "a", "n",
    "a", "l", "y", "z", "e", " ", "a", " ", "V", "C", " ", "f", "u", "n", "d", "'", "s", " ", "d",
    "e", "a", "l", " ", "p", "i", "p", "e", "l", "i", "n", "e", " ", "d", "a", "t", "a", "b", "a",
    "s", "e", ".", "\n", "\n", "D", "A", "T", "A", "B", "A", "S", "E", " ", "C", "O", "N", "T",
    "E", "X", "T", ":", "\n">>
PromptGap ==
    <<"\n", "\n">>
WebSectionLabel ==
    <<"W", "E", "B", " ", "S", "E", "A", "R", "C", "H", " ", "R", "E", "S", "U", "L", "T", "S",
    ":", "\n">>
PromptGuidance ==
    <<"\n", "\n", "A", "n", "s", "w", "e", "r", " ", "q", "u", "e", "s", "t", "i", "o", "n", "s",
    " ", "n", "a", "t", "u", "r", "a", "l", "l", "y", " ", "u", "s", "i", "n", "g", " ", "t", "h",
    "e", " ", "d", "a", "t", "a", "b", "a", "s", "e", " ", "a", "n", "d", " ", "w", "e", "b", " ",
    "s", "e", "a", "r", "c", "h", " ", "r", "e", "s", "u", "l", "t", "s", " ", "w", "h", "e", "n",
    " ", "a", "v", "a", "i", "l", "a", "b", "l", "e", ".", " ", "B", "e", " ", "c", "o", "n", "v",
    "e", "r", "s", "a", "t", "i", "o", "n", "a", "l", " ", "a", "n", "d", " ", "i", "n", "s", "i",
    "g", "h", "t", "f", "u", "l", ".">>
UpperCase ==
    <<"A", "B", "C", "D", "E", "F", "G", "H", "I", "J", "K", "L", "M", "N", "O", "P", "Q", "R",
    "S", "T", "U", "V", "W", "X", "Y", "Z">>
LowerCase ==
    <<"a", "b", "c", "d", "e", "f", "g", "h", "i", "j", "k", "l", "m", "n", "o", "p", "q", "r",
    "s", "t", "u", "v", "w", "x", "y", "z">>

search_terms ==
    {<<"n", "e", "w", "s">>,
     <<"l", "a", "t", "e", "s", "t">>,
     <<"r", "e", "c", "e", "n", "t">>,
     <<"c", "u", "r", "r", "e", "n", "t">>,
     <<"m", "a", "r", "k", "e", "t">>,
     <<"c", "o", "m", "p", "e", "t", "i", "t", "o", "r">>,
     <<"r", "e", "s", "e", "a", "r", "c", "h">>}

\* str.lower on the ASCII capitals
ToLower ==
    [c \in {UpperCase[i] : i \in 1..Len(UpperCase)} |->
        LowerCase[CHOOSE i \in 1..Len(UpperCase) : UpperCase[i] = c]]

\* c.lower()
LowerChar(c) == IF c \in DOMAIN ToLower THEN ToLower[c] ELSE c

\* s.lower()
Lower(s) == [i \in 1..Len(s) |-> LowerChar(s[i])]

\* a should_search that forgets to lower-case the message
should_search_cased(message) == \E term \in search_terms : Contains(message, term)

\* any(term in message.lower() for term in search_terms)
should_search(message) ==
    \E lowered \in {Lower(message)} : \E term \in search_terms : Contains(lowered, term)

\* the f-string that builds system_prompt
SystemPrompt(ctx, web_results) ==
    PromptIntro \o ctx \o PromptGap
    \o (IF Truthy(web_results) THEN WebSectionLabel \o Format(web_results) \o NL ELSE <<>>)
    \o PromptGuidance

Payload(ctx, web_results, message) ==
    [model |-> "claude-3-5-sonnet-20241022",
     max_tokens |-> MaxTokens,
     system |-> SystemPrompt(ctx, web_results),
     messages |-> <<[role |-> "user", content |-> message]>>]

\* What requests.post answers: it raises an exception of class cls whose str()
\* is msg, or it is a response with a status code, a body text, and the outcome
\* of response.json(): the JSON object, or the exception json() raises.
PostRaises(cls, msg) == [kind |-> "exception", cls |-> cls, msg |-> msg]
PostResponse(status, text, body) ==
    [kind |-> "response", status_code |-> status, text |-> text, body |-> body]
JsonRaises(cls, msg) == [valid |-> FALSE, cls |-> cls, msg |-> msg]

\* the exception classes that derive from requests.Timeout
IsTimeout(cls) == cls \in {"requests.Timeout", "requests.ReadTimeout"}

\* the exception classes that derive from requests.RequestException;
\* requests.JSONDecodeError is what response.json() raises in requests >= 2.27,
\* json.JSONDecodeError (a ValueError) what it raises before
IsRequestException(cls) ==
    cls \in {"requests.Timeout", "requests.ReadTimeout", "requests.ConnectionError",
             "requests.JSONDecodeError"}

\* the three except clauses of ask_claude, in their order
Handled(cls, msg) ==
    IF IsTimeout(cls) THEN TimeoutText
    ELSE IF IsRequestException(cls) THEN NetworkErrorPrefix \o msg
    ELSE ErrorPrefix \o msg

KeyErrorText ==
    <<"'", "t", "e", "x", "t", "'">>

\* the try block of ask_claude from requests.post on, and its except clauses
ModelReply(answer) ==
    IF answer.kind = "exception" THEN Handled(answer.cls, answer.msg)
    ELSE IF answer.status_code = 200
    THEN IF ~answer.body.valid THEN Handled(answer.body.cls, answer.body.msg)
         ELSE IF "content" \in DOMAIN answer.body.data
                 /\ Len(answer.body.data["content"]) > 0
              THEN IF "text" \in DOMAIN answer.body.data["content"][1]
                   THEN answer.body.data["content"][1]["text"]
                   ELSE Handled("KeyError", KeyErrorText)
              ELSE EmptyResponseText
    ELSE ApiErrorPrefix \o Decimal(answer.status_code) \o ApiErrorMid
         \o (IF answer.text # <<>> THEN Slice(answer.text, ErrorBodyLimit)
             ELSE UnknownErrorText)

\* what ask_claude leaves alone when it does not sync
NoSync(ctx, ls) ==
    [ret |-> FALSE, database_context |-> ctx, last_sync |-> ls,
     fetched |-> <<>>, records |-> <<>>, ticks |-> 0]

\* the outside calls of one sync_database run
SyncCalls(s) ==
    <<<<"sync_database">>>> \o [i \in 1..Len(s.fetched) |-> <<"fetch_table", s.fetched[i]>>]

\* an ask_claude that syncs before every question
ask_claude_resyncing(key, ctx, ls, env, now, message, world) ==
    IF key = <<>>
    THEN [ret |-> NotConfiguredText, database_context |-> ctx, last_sync |-> ls,
          calls |-> <<>>, ticks |-> 0, sync |-> NoSync(ctx, ls)]
    ELSE LET s == sync_database(world.store, ctx, ls, now)
             w == IF should_search(message)
                  THEN LET r == web_search(env, world.search)
                       IN  [ret |-> r.ret, calls |-> <<<<"web_search">>>> \o r.calls]
                  ELSE [ret |-> PyNone, calls |-> <<>>]
             payload == Payload(s.database_context, w.ret, message)
         IN  [ret |-> ModelReply(world.model),
              database_context |-> s.database_context,
              last_sync |-> s.last_sync,
              calls |-> SyncCalls(s) \o w.calls \o <<<<"requests.post", payload>>>>,
              ticks |-> s.ticks, sync |-> s]

\* ask_claude(message) run on the session (key, ctx, ls) in the world `world`:
\* world.store answers the table fetches, world.search the search providers,
\* world.model the model call; env is os.environ, now is datetime.now()
ask_claude(key, ctx, ls, env, now, message, world) ==
    IF key = <<>>
    THEN [ret |-> NotConfiguredText, database_context |-> ctx, last_sync |-> ls,
          calls |-> <<>>, ticks |-> 0, sync |-> NoSync(ctx, ls)]
    ELSE LET empty == ctx = <<>>
             s == IF empty THEN sync_database(world.store, ctx, ls, now)
                  ELSE NoSync(ctx, ls)
             w == IF should_search(message)
                  THEN LET r == web_search(env, world.search)
                       IN  [ret |-> r.ret, calls |-> <<<<"web_search">>>> \o r.calls]
                  ELSE [ret |-> PyNone, calls |-> <<>>]
             payload == Payload(s.database_context, w.ret, message)
         IN  [ret |-> ModelReply(world.model),
              database_context |-> s.database_context,
              last_sync |-> s.last_sync,
              calls |-> (IF empty THEN SyncCalls(s) ELSE <<>>) \o w.calls
                        \o <<<<"requests.post", payload>>>>,
              ticks |-> s.ticks, sync |-> s]

----------------------------------------------------------------------------
(* The inputs the operations are run on *)

T_Acme ==
    <<"A", "c", "m", "e">>
T_Beta ==
    <<"B", "e", "t", "a">>
T_Bad ==
    <<"B", "a", "d">>
T_Active ==
    <<"A", "c", "t", "i", "v", "e">>
T_met ==
    <<"m", "e", "t">>
T_B2B ==
    <<"B", "2", "B">>
T_date ==
    <<"2", "0", "2", "4", "-", "0", "5", "-", "0", "1">>
JsonErrorText ==
    <<"E", "x", "p", "e", "c", "t", "i", "n", "g", " ", "v", "a", "l", "u", "e", ":", " ", "l",
    "i", "n", "e", " ", "1", " ", "c", "o", "l", "u", "m", "n", " ", "1", " ", "(", "c", "h", "a",
    "r", " ", "0", ")">>
ConnErrorText ==
    <<"C", "o", "n", "n", "e", "c", "t", "i", "o", "n", " ", "r", "e", "f", "u", "s", "e", "d">>
ReadTimeoutText ==
    <<"R", "e", "a", "d", " ", "t", "i", "m", "e", "d", " ", "o", "u", "t", ".">>
Q_latest ==
    <<"W", "h", "a", "t", "'", "s", " ", "t", "h", "e", " ", "l", "a", "t", "e", "s", "t", " ",
    "o", "n", " ", "A", "c", "m", "e", "?">>
Q_status ==
    <<"W", "h", "a", "t", "'", "s", " ", "A", "c", "m", "e", "'", "s", " ", "s", "t", "a", "t",
    "u", "s", "?">>
Q_upper ==
    <<"M", "A", "R", "K", "E", "T", " ", "s", "i", "z", "e", "?">>
Q_split ==
    <<"A", "n", "y", " ", "n", "e", "w", " ", "s", "t", "u", "f", "f", "?">>
Q_inner ==
    <<"W", "h", "o", " ", "r", "e", "n", "e", "w", "s", "?">>
T_answer ==
    <<"A", "c", "m", "e", " ", "i", "s", " ", "a", "c", "t", "i", "v", "e", ".">>
T_overloaded ==
    <<"o", "v", "e", "r", "l", "o", "a", "d", "e", "d">>
T_title ==
    <<"A", "c", "m", "e", " ", "r", "a", "i", "s", "e", "s">>
T_snippet ==
    <<"S", "e", "r", "i", "e", "s", " ", "A">>
T_link ==
    <<"h", "t", "t", "p", "s", ":", "/", "/", "x", ".", "i", "o">>
T_key ==
    <<"k">>

Names == {possible_names[i] : i \in 1..Len(possible_names)}

RecAcme ==
    [id |-> "rec1",
     fields |-> ("company_name" :> Str(T_Acme) @@ "Status" :> Str(T_Active)
                 @@ "notes" :> Str(T_met))]
RecBeta ==
    [id |-> "rec2",
     fields |-> ("Company" :> Str(T_Beta) @@ "Deck Summary" :> Str(T_B2B)
                 @@ "date" :> Str(T_date))]
\* an Airtable number field under a notes alias: notes[:500] raises TypeError
RecBad ==
    [id |-> "rec3", fields |-> ("name" :> Str(T_Bad) @@ "Notes" :> Num(7))]

TableA == <<RecAcme, RecBeta>>
TableB == <<RecBeta>>
TableBad == <<RecAcme, RecBad>>

Table(records) == Response(200, Json("records" :> records))

AllFail == [n \in Names |-> Raises]
OnlyLive(name, answer) == [n \in Names |-> IF n = name THEN answer ELSE Raises]

\* the stores the session is run against: no table answers, or one does
SessionStores ==
    {AllFail, OnlyLive("List of Cos", Table(TableA))}
    \cup {OnlyLive("Companies", Table(t)) : t \in {<<>>, TableA, TableB, TableBad}}

Item(k1, k2) == ("title" :> Str(T_title) @@ k1 :> Str(T_snippet) @@ k2 :> Str(T_link))

DdgAnswers ==
    {[kind |-> "exception"], [kind |-> "results", items |-> <<>>],
     [kind |-> "results", items |-> <<Item("body", "link")>>]}
BraveAnswers ==
    {Response(200, Json(<<>>)),
     Response(200, Json("web" :> ("results" :> <<Item("description", "url")>>)))}
SerpAnswers ==
    {Response(429, NotJson),
     Response(200, Json("organic_results" :> <<Item("snippet", "link")>>))}

SessionSearches == [ddg : DdgAnswers, brave : BraveAnswers, serpapi : SerpAnswers]

Messages == {Q_latest, Q_status, Q_upper, Q_split, Q_inner}

ModelAnswers ==
    {PostRaises("requests.ReadTimeout", ReadTimeoutText),
     PostRaises("requests.ConnectionError", ConnErrorText),
     PostResponse(500, T_overloaded, JsonRaises("requests.JSONDecodeError", JsonErrorText)),
     PostResponse(500, <<>>, JsonRaises("requests.JSONDecodeError", JsonErrorText)),
     PostResponse(529, Rep("x", ErrorBodyLimit + 1), Json(<<>>)),
     PostResponse(200, <<>>, JsonRaises("requests.JSONDecodeError", JsonErrorText)),
     PostResponse(200, <<>>, JsonRaises("json.JSONDecodeError", JsonErrorText)),
     PostResponse(200, <<>>, Json(<<>>)),
     PostResponse(200, <<>>, Json("content" :> <<>>)),
     PostResponse(200, <<>>, Json("content" :> <<("type" :> "tool_use")>>)),
     PostResponse(200, <<>>, Json("content" :> <<("type" :> "text" @@ "text" :> T_answer)>>))}

Worlds == [store : SessionStores, search : SessionSearches, model : ModelAnswers]

Keys == {<<>>, T_key}

----------------------------------------------------------------------------
(* The session: main() constructs the VCDatabase and syncs once; then the    *)
(* routes /api/sync and /api/ask run one request at a time.                 *)

Init ==
    /\ claude_api_key \in Keys
    /\ database_context = <<>>
    /\ last_sync = <<>>
    /\ clock = 1
    /\ environ \in [{"BRAVE_API_KEY", "SERPAPI_KEY"} -> Keys]
    /\ op = "init"
    /\ arg = <<>>
    /\ ret = PyNone
    /\ calls = <<>>
    /\ synced = <<>>

\* the session as the operation about to run finds it
Before ==
    [database_context |-> database_context, last_sync |-> last_sync, synced |-> synced]

\* db.sync_database(), from main() at start-up or from the route /api/sync
Sync(store) ==
    /\ op \in {"init", "idle"}
    /\ \E s \in {sync_database(store, database_context, last_sync, clock)} :
           /\ clock + s.ticks <= MaxClock
           /\ database_context' = s.database_context
           /\ last_sync' = s.last_sync
           /\ clock' = clock + s.ticks
           /\ op' = "sync"
           /\ arg' = [before |-> Before, records |-> s.records]
           /\ ret' = Bool(s.ret)
           /\ calls' = SyncCalls(s)
           /\ synced' = IF s.ret THEN s.records ELSE synced
    /\ UNCHANGED <<claude_api_key, environ>>

\* db.ask_claude(message), from the route /api/ask
Ask(message, world) ==
    /\ op = "idle"
    /\ \E a \in {ask_claude(claude_api_key, database_context, last_sync, environ, clock,
                              message, world)} :
           /\ clock + a.ticks <= MaxClock
           /\ database_context' = a.database_context
           /\ last_sync' = a.last_sync
           /\ clock' = clock + a.ticks
           /\ op' = "ask"
           /\ arg' = [before |-> Before, message |-> message, search |-> world.search,
                       model |-> world.model]
           /\ ret' = Str(a.ret)
           /\ calls' = a.calls
           /\ synced' = IF a.sync.ret THEN a.sync.records ELSE synced
    /\ UNCHANGED <<claude_api_key, environ>>

\* the route (or main) is done with the returned value; the next request may come
Respond ==
    /\ op \in {"sync", "ask"}
    /\ op' = "idle"
    /\ arg' = <<>>
    /\ ret' = PyNone
    /\ calls' = <<>>
    /\ UNCHANGED <<claude_api_key, database_context, last_sync, clock, synced, environ>>

SyncStep == \E store \in SessionStores : Sync(store)
AskStep == \E message \in Messages, world \in Worlds : Ask(message, world)

Next == SyncStep \/ AskStep \/ Respond

Spec == Init /\ [][Next]_vars

----------------------------------------------------------------------------
(* create_context on its own: every record sequence up to MaxRecords long    *)
(* over a pool of records whose free-text slots straddle the 500 limit.      *)

\* both free-text slots over the limit
RecLong ==
    [id |-> "rec4",
     fields |-> ("company_name" :> Str(T_Acme) @@ "Status" :> Str(T_Active)
                 @@ "notes" :> Str(Rep("n", NotesLimit + 1))
                 @@ "Deck Summary" :> Str(Rep("s", SummaryLimit + 100)))]
\* notes exactly at the limit, summary short
RecEdge ==
    [id |-> "rec5",
     fields |-> ("Company" :> Str(T_Beta) @@ "Notes" :> Str(Rep("m", NotesLimit))
                 @@ "summary" :> Str(T_B2B))]
\* no "fields" key at all
RecBare == [id |-> "rec6"]
\* an empty first alias falls through to a later one; notes short, summary over
RecFall ==
    [id |-> "rec7",
     fields |-> ("company_name" :> Str(<<>>) @@ "name" :> Str(T_Bad)
                 @@ "notes" :> Str(<<>>) @@ "Call Notes" :> Str(T_met)
                 @@ "pitch_deck_summary" :> Str(Rep("p", SummaryLimit + 1)))]
\* number fields: a status that is a number, a zero date
RecNum ==
    [id |-> "rec8",
     fields |-> ("Company Name" :> Str(T_Acme) @@ "Current status" :> Num(42)
                 @@ "date" :> Num(0) @@ "Last Contact" :> Str(T_date))]

RecordPool == {RecAcme, RecBeta, RecBad, RecLong, RecEdge, RecBare, RecFall, RecNum}

RecordSeqs == UNION {[1..n -> RecordPool] : n \in 0..MaxRecords}

\* the session as __init__ leaves it, outside the operation under study
Fresh ==
    /\ claude_api_key = T_key
    /\ database_context = <<>>
    /\ last_sync = <<>>
    /\ clock = 1
    /\ op = "input"
    /\ ret = PyNone
    /\ calls = <<>>
    /\ synced = <<>>

InitCtx ==
    /\ Fresh
    /\ environ = [k \in {"BRAVE_API_KEY", "SERPAPI_KEY"} |-> <<>>]
    /\ arg \in RecordSeqs

CreateContext ==
    /\ op = "input"
    /\ op' = "create_context"
    /\ ret' = create_context(arg)
    /\ UNCHANGED <<claude_api_key, database_context, last_sync, clock, arg, calls, synced,
                   environ>>

SpecCtx == InitCtx /\ [][CreateContext]_vars

----------------------------------------------------------------------------
(* find_table on its own: every way the five candidate tables can answer.    *)

FetchAnswers ==
    {Raises, Response(404, NotJson), Response(200, NotJson), Response(200, Json(<<>>)),
     Table(<<>>), Table(TableA), Table(TableB)}

Stores == [Names -> FetchAnswers]

InitFetch ==
    /\ Fresh
    /\ environ = [k \in {"BRAVE_API_KEY", "SERPAPI_KEY"} |-> <<>>]
    /\ arg \in Stores

FindTable ==
    /\ op = "input"
    /\ \E found \in {find_table(arg)} :
           /\ op' = "find_table"
           /\ ret' = found.data
           /\ calls' = [i \in 1..Len(found.fetched) |-> <<"fetch_table", found.fetched[i]>>]
    /\ UNCHANGED <<claude_api_key, database_context, last_sync, clock, arg, synced, environ>>

SpecFetch == InitFetch /\ [][FindTable]_vars

----------------------------------------------------------------------------
(* web_search on its own: every combination of keys and provider answers.    *)

\* a result without a title, and one with every field
ItemUntitled(k1, k2) == (k1 :> Str(T_snippet) @@ k2 :> Str(T_link))

DdgAll ==
    {[kind |-> "ImportError"], [kind |-> "exception"],
     [kind |-> "results", items |-> <<>>],
     [kind |-> "results", items |-> <<Item("body", "link")>>],
     [kind |-> "results",
      items |-> <<Item("body", "link"), ItemUntitled("body", "link"), Item("body", "href")>>]}
BraveAll ==
    {Raises, Response(429, NotJson), Response(200, NotJson), Response(200, Json(<<>>)),
     Response(200, Json("web" :> ("results" :> <<Item("description", "url")>>))),
     Response(200, Json("web" :> ("results" :>
         <<Item("description", "url"), Item("description", "url"),
           ItemUntitled("description", "url"), Item("description", "url")>>)))}
SerpAll ==
    {Raises, Response(500, NotJson), Response(200, Json("organic_results" :> <<>>)),
     Response(200, Json("organic_results" :> <<Item("snippet", "link")>>))}

SearchAnswers == [ddg : DdgAll, brave : BraveAll, serpapi : SerpAll]

\* a key that is unset, blank, or set
SearchKeys == {<<>>, <<" ">>, T_key}

InitSearch ==
    /\ Fresh
    /\ environ \in [{"BRAVE_API_KEY", "SERPAPI_KEY"} -> SearchKeys]
    /\ arg \in SearchAnswers

WebSearch ==
    /\ op = "input"
    /\ \E r \in {web_search(environ, arg)} :
           /\ op' = "web_search"
           /\ ret' = r.ret
           /\ calls' = r.calls
    /\ UNCHANGED <<claude_api_key, database_context, last_sync, clock, arg, synced, environ>>

SpecSearch == InitSearch /\ [][WebSearch]_vars

----------------------------------------------------------------------------
(* Claims *)

\* C1: a sync_database call whose table discovery yields no records, or that
\* fails in any other way (create_context raises), returns False and leaves
\* database_context and last_sync exactly as they were before the call; True is
\* returned only by a call that found records and stamped a new sync time, so
\* the two results tell failure from success.
C1_FailedSyncKeepsSession ==
    op = "sync" =>
        /\ ret.t = "bool"
        /\ (arg.records = <<>> \/ ~create_context(arg.records).ok) => ret.v = FALSE
        /\ ret.v = FALSE =>
               /\ database_context = arg.before.database_context
               /\ last_sync = arg.before.last_sync
        /\ ret.v = TRUE =>
               /\ arg.records # <<>>
               /\ last_sync # arg.before.last_sync

\* a sync that found no records although an earlier one had filled the context
C1_Witness ==
    /\ op = "sync"
    /\ ret.v = FALSE
    /\ arg.records = <<>>
    /\ arg.before.database_context # <<>>
    /\ arg.before.last_sync # <<>>

----------------------------------------------------------------------------
(* What the search providers were given, read off the inputs *)

KeyGiven(name) == environ[name] \notin {<<>>, <<" ">>}

\* the backend answered with a readable body
Answered(answer) ==
    answer.kind = "response" /\ answer.status_code = 200 /\ answer.body.valid

\* a provider is up when it is neither skipped (no key) nor erroring (it raises,
\* answers another status than 200, or answers a body that is not JSON)
DdgUp(answers) == answers.ddg.kind = "results"
BraveUp(answers) == KeyGiven("BRAVE_API_KEY") /\ Answered(answers.brave)
SerpUp(answers) == KeyGiven("SERPAPI_KEY") /\ Answered(answers.serpapi)

\* the result set of each provider, in the order of preference; empty if it is down
ResultSets(answers) ==
    <<IF DdgUp(answers) THEN answers.ddg.items ELSE <<>>,
      IF BraveUp(answers) THEN Slice(BraveItems(answers.brave.body.data), MaxResults)
      ELSE <<>>,
      IF SerpUp(answers) THEN Slice(SerpItems(answers.serpapi.body.data), MaxResults)
      ELSE <<>>>>

\* what each provider returns, in the order of preference
Outputs(answers) ==
    <<web_search_duckduckgo(answers.ddg).ret, web_search_brave(environ, answers.brave).ret,
      web_search_serpapi(environ, answers.serpapi).ret>>

ProviderOrder == <<"web_search_duckduckgo", "web_search_brave", "web_search_serpapi">>

IsProviderCall(c) == \E i \in 1..Len(ProviderOrder) : c[1] = ProviderOrder[i]

\* the provider methods the last operation invoked, in the order it invoked them
Invoked == [i \in 1..Len(SelectSeq(calls, IsProviderCall)) |->
               SelectSeq(calls, IsProviderCall)[i][1]]

\* C2: web_search consults the providers in the order DuckDuckGo, Brave,
\* SerpAPI; it returns the output of the first provider in that order whose
\* result set has at least one entry, and invokes no provider after that one.
C2_FirstNonEmptyWins ==
    op = "web_search" =>
        /\ Invoked = SubSeq(ProviderOrder, 1, Len(Invoked))
        /\ \A w \in 1..Len(ProviderOrder) :
               (/\ Len(ResultSets(arg)[w]) > 0
                /\ \A j \in 1..(w - 1) : Len(ResultSets(arg)[j]) = 0)
               => /\ ret = Outputs(arg)[w]
                  /\ Len(Invoked) = w

\* C3: web_search returns None exactly when every provider is skipped (its key
\* is absent) or errors; a provider that is down is passed over and the next
\* one is tried; and what is returned is never an empty text.
C3_NoneIffAllUnavailable ==
    op = "web_search" =>
        /\ (ret.t = "none") <=> (~DdgUp(arg) /\ ~BraveUp(arg) /\ ~SerpUp(arg))
        /\ ~DdgUp(arg) => Len(Invoked) >= 2
        /\ (~DdgUp(arg) /\ ~BraveUp(arg)) => Invoked = ProviderOrder
        /\ ret.t = "str" => ret.v # <<>>

\* the keyless provider raises and both keys are absent
C3_Witness ==
    /\ op = "web_search"
    /\ arg.ddg.kind = "exception"
    /\ environ["BRAVE_API_KEY"] = <<>>
    /\ environ["SERPAPI_KEY"] = <<>>
    /\ ret.t = "none"

----------------------------------------------------------------------------
(* What ask_claude did, read off its calls *)

Searched == \E i \in 1..Len(calls) : calls[i][1] = "web_search"

SyncAttempted == \E i \in 1..Len(calls) : calls[i][1] = "sync_database"

ModelCalls == Cardinality({i \in 1..Len(calls) : calls[i][1] = "requests.post"})

\* the request sent to the model, when the last call is that request
SentPayload == calls[Len(calls)][2]

\* the messages of the bounded input set that hold a trigger word, by reading them
Triggering == {Q_latest, Q_upper, Q_inner}

\* C4 as claimed: for every question, web_search is invoked if and only if the
\* lower-cased question contains one of the trigger substrings.
C4_SearchIffTrigger ==
    op = "ask" => (Searched <=> arg.message \in Triggering)

\* C4 as amended: with a Claude API key configured, web_search (and with it the
\* first search provider) is invoked if and only if the lower-cased question
\* contains a trigger substring; without a key nothing is searched.
C4_SearchIffTriggerAndKey ==
    op = "ask" =>
        /\ Searched <=> (claude_api_key # <<>> /\ arg.message \in Triggering)
        /\ Searched <=> (Len(Invoked) > 0)

\* "What's the latest on Acme?" with a key configured: a provider was called
C4_Witness ==
    /\ op = "ask"
    /\ claude_api_key # <<>>
    /\ arg.message = Q_latest
    /\ Searched
    /\ Len(Invoked) > 0

\* the failure category of what the model call answered
Fault(answer) ==
    IF answer.kind = "exception"
    THEN IF answer.cls \in {"requests.Timeout", "requests.ReadTimeout"} THEN "timeout"
         ELSE "network"
    ELSE IF answer.status_code \notin 200..299 THEN "status"
    ELSE IF ~answer.body.valid THEN "malformed"
    ELSE IF \/ "content" \notin DOMAIN answer.body.data
            \/ answer.body.data["content"] = <<>>
         THEN "malformed"
    ELSE IF "text" \notin DOMAIN answer.body.data["content"][1] THEN "malformed"
    ELSE "none"

\* the failure category a returned message names
Named(msg) ==
    IF msg = TimeoutText THEN "timeout"
    ELSE IF StartsWith(msg, NetworkErrorPrefix) THEN "network"
    ELSE IF StartsWith(msg, ApiErrorPrefix) THEN "status"
    ELSE IF msg = EmptyResponseText \/ StartsWith(msg, ErrorPrefix) THEN "malformed"
    ELSE "none"

\* C5: ask_claude always returns a text; on a model-call failure the text is
\* not empty and names the failure category (timeout, network error, non-2xx
\* status with its code, malformed or empty success body), each category having
\* messages no other category has.
C5_FailureNamesCategory ==
    (op = "ask" /\ claude_api_key # <<>>) =>
        /\ ret.t = "str"
        /\ ret.v # <<>>
        /\ Named(ret.v) = Fault(arg.model)
        /\ Fault(arg.model) = "status" =>
               StartsWith(ret.v, ApiErrorPrefix \o Decimal(arg.model.status_code))

\* the system prompt holds the web-results section right after the context
HasWebSection(payload, ctx) ==
    SubSeq(payload.system, Len(PromptIntro) + Len(ctx) + Len(PromptGap) + 1,
           Len(PromptIntro) + Len(ctx) + Len(PromptGap) + Len(WebSectionLabel))
        = WebSectionLabel

\* C7: the system prompt sent to the model holds a web-results section only if
\* some provider produced at least one result; when every provider is down or
\* the answering provider found nothing, the section is left out.
C7_WebSectionOnlyWithResults ==
    (op = "ask" /\ ModelCalls = 1) =>
        (HasWebSection(SentPayload, database_context)
            => \E i \in 1..Len(ProviderOrder) : Len(ResultSets(arg.search)[i]) > 0)

----------------------------------------------------------------------------
(* The steps of one question *)

\* 1 for the ensure-context step, 2 for the search step, 3 for the model call
Phase(c) ==
    IF c[1] \in {"sync_database", "fetch_table"} THEN 1
    ELSE IF c[1] = "requests.post" THEN 3
    ELSE 2

\* a call without the payload it carried
Step(c) == IF c[1] = "requests.post" THEN <<c[1]>> ELSE c

\* the calls run ensure-context, search, model call in that order, none of them
\* twice, and end with the one model call; what is returned is a text
Linear ==
    /\ \A i, j \in 1..Len(calls) :
           i < j => /\ Phase(calls[i]) <= Phase(calls[j])
                    /\ Step(calls[i]) # Step(calls[j])
    /\ ModelCalls = 1
    /\ calls[Len(calls)][1] = "requests.post"
    /\ ret.t = "str"

\* C6 as claimed: every question runs ensure-context (a sync when and only when
\* the context is empty), maybe-search, call-model, in that order, with the
\* model called exactly once and no step retried, and changes no session state
\* other than the context and its sync time.
C6_LinearQuestion ==
    [][op' = "ask" =>
          /\ Linear'
          /\ SyncAttempted' <=> (database_context = <<>>)
          /\ claude_api_key' = claude_api_key
          /\ environ' = environ]_vars

\* C6 as amended: with a Claude API key configured every question runs as
\* claimed; without a key ask_claude returns "Claude API not configured" at
\* once, with no sync, no search and no model call, and changes nothing.
C6_LinearQuestionWithKey ==
    [][op' = "ask" =>
          /\ IF claude_api_key = <<>>
             THEN /\ calls' = <<>>
                  /\ ret' = Str(NotConfiguredText)
                  /\ database_context' = database_context
                  /\ last_sync' = last_sync
             ELSE /\ Linear'
                  /\ SyncAttempted' <=> (database_context = <<>>)
          /\ claude_api_key' = claude_api_key
          /\ environ' = environ]_vars

\* a question that went through all three steps
C6_Witness ==
    /\ op = "ask"
    /\ claude_api_key # <<>>
    /\ SyncAttempted
    /\ Searched
    /\ ModelCalls = 1

\* C8: the context a successful sync leaves is built from the fetched records
\* alone, so a successful sync_database that fetches the same records as the
\* successful sync before it leaves database_context identical.
C8_SyncIdempotent ==
    /\ database_context # <<>> => database_context = create_context(synced).v
    /\ (op = "sync" /\ ret.v = TRUE /\ arg.before.synced = arg.records)
           => database_context = arg.before.database_context

\* a second successful sync over the records of the first
C8_Witness ==
    /\ op = "sync"
    /\ ret.v = TRUE
    /\ arg.before.synced = arg.records
    /\ arg.before.database_context # <<>>
    /\ last_sync # arg.before.last_sync

----------------------------------------------------------------------------
(* find_table *)

\* the fetch of this table yields records: status 200, a JSON body, a
\* non-empty "records" list
Yields(answer) ==
    /\ answer.kind = "response"
    /\ answer.status_code = 200
    /\ answer.body.valid
    /\ "records" \in DOMAIN answer.body.data
    /\ answer.body.data["records"] # <<>>

Fetches(n) == [i \in 1..n |-> <<"fetch_table", possible_names[i]>>]

\* C9: find_table probes the candidate names in their fixed order, returns the
\* records of the first candidate whose fetch yields records and fetches none
\* after it; it returns the empty sequence only when no candidate yields
\* records, a failed fetch counting as empty.
C9_FirstYieldingTable ==
    op = "find_table" =>
        LET hits == {i \in 1..Len(possible_names) : Yields(arg[possible_names[i]])}
        IN  IF hits = {}
            THEN ret = <<>> /\ calls = Fetches(Len(possible_names))
            ELSE LET k == CHOOSE i \in hits : \A j \in hits : i <= j
                 IN  /\ ret = arg[possible_names[k]].body.data["records"]
                     /\ calls = Fetches(k)

\* the first table fails, the second is empty, the third and fourth hold records
C9_Witness ==
    /\ op = "find_table"
    /\ arg["List of Cos"] = Raises
    /\ arg["companies_full_history_safe"] = Table(<<>>)
    /\ arg["Companies"] = Table(TableA)
    /\ arg["Imported table"] = Table(TableB)
    /\ ret = TableA
    /\ calls = Fetches(3)

----------------------------------------------------------------------------
(* create_context: reading the text it returns line by line *)

NewlinesOf(text) == {i \in 1..Len(text) : text[i] = "\n"}

\* where the lines of the text start
LineStarts(text) == {1} \cup {i + 1 : i \in NewlinesOf(text)}

\* the line that starts at s
LineAt(text, s) ==
    LET stops == {j \in NewlinesOf(text) \cup {Len(text) + 1} : j >= s}
    IN  SubSeq(text, s, (CHOOSE j \in stops : \A k \in stops : j <= k) - 1)

\* where the "Company: " lines start
CompanyStarts(text) ==
    {s \in LineStarts(text) : StartsWith(LineAt(text, s), Tail(CompanyLabel))}

\* the lines of the k-th block: from the k-th "Company: " line up to the next
BlockLines(text, k) ==
    LET cs == CompanyStarts(text)
        from == CHOOSE s \in cs : Cardinality({t \in cs : t < s}) = k - 1
        later == {t \in cs : t > from}
    IN  {LineAt(text, s) : s \in {t \in LineStarts(text) :
                                    t >= from /\ \A u \in later : t < u}}

----------------------------------------------------------------------------
(* The session's context and its sync time *)

\* the header text every context is said to begin with
ContextHeader ==
    <<"=", "=", "=", " ", "V", "C", " ", "D", "A", "T", "A", "B", "A", "S", "E", " ", "=", "=",
    "=">>

\* the context is empty exactly when no sync time is recorded, and a context
\* that is not empty begins with the header
Coupled ==
    /\ (database_context = <<>>) <=> (last_sync = <<>>)
    /\ database_context # <<>> => StartsWith(database_context, ContextHeader)

\* C11: after any sequence of sync_database and ask_claude calls
\* database_context is the empty string if and only if last_sync is None; a
\* database_context that is not empty begins with "=== VC DATABASE ===", and
\* once it is not empty no call makes it empty again.
C11_ContextIffSynced ==
    /\ []Coupled
    /\ [][database_context # <<>> => database_context' # <<>>]_vars

\* a sync that failed after the context had been filled: the header-led
\* context and its sync time are both still there
C11_Witness ==
    /\ op = "sync"
    /\ ret = Bool(FALSE)
    /\ arg.before.database_context # <<>>
    /\ database_context # <<>>
    /\ StartsWith(database_context, ContextHeader)
    /\ last_sync # <<>>

====
